---- MODULE Spec2Model ----
(***************************************************************************)
(* Model of the GraphQL resolver layer of openlobby-server:                *)
(*   openlobby/core/api/schema.py  (Query.resolve_authors,                 *)
(*                                  Query.resolve_search_reports,          *)
(*                                  _get_authors_cache)                    *)
(*   openlobby/core/api/types.py   (get_higlighted, Report, User, Author)  *)
(* The Paginator, the search adapter and the model manager are imported by *)
(* these files from modules that are not part of the sources at hand; they *)
(* are modelled from their documented contract.                            *)
(*                                                                         *)
(* The relational store is state (users, dbReports).  The search index is  *)
(* an external backend: every call that reaches it takes the index content *)
(* at the time of the call as an input.  A worker handles one request at a *)
(* time: a handler runs when out is NoOut, leaves its response in out, and *)
(* Respond hands the response over.                                        *)
(***************************************************************************)
EXTENDS Integers, Sequences, FiniteSets, TLC

VARIABLES users, dbReports, req, out

vars == <<users, dbReports, req, out>>

\* ------------------------------------------------------------- bounds
MaxUser == 2
MaxDocs == 3
MaxDbReports == 2

\* default page size of the Paginator
PER_PAGE == 10

UserIds == 1..MaxUser

\* ------------------------------------------------------------ helpers
NULL == [null |-> TRUE]

Min(a, b) == IF a < b THEN a ELSE b

Max(a, b) == IF a > b THEN a ELSE b

Range(s) == {s[i] : i \in 1..Len(s)}

\* Python's seq[a:b] for 0 <= a: the elements at 0-based positions a..b-1.
Slice(s, a, b) == SubSeq(s, a + 1, Min(b, Len(s)))

Put(f, k, v) == [x \in DOMAIN f \cup {k} |-> IF x = k THEN v ELSE f[x]]

WithKey(K, k, V) == K \cup {Put(kw, k, v) : kw \in K, v \in V}

\* The rows of S as a sequence in ascending order of last_name.
RECURSIVE OrderByLastName(_)
OrderByLastName(S) ==
    IF S = {} THEN <<>>
    ELSE LET m == CHOOSE x \in S : \A y \in S : x.last_name <= y.last_name
         IN <<m>> \o OrderByLastName(S \ {m})

Reverse(s) == [i \in 1..Len(s) |-> s[Len(s) + 1 - i]]

\* ---------------------------------------------------- relational store
\* A row of models.User.  last_name is represented by its collation rank.
UserRow(i, a) ==
    [id |-> i, openid_uid |-> "uid", first_name |-> "Jan",
     last_name |-> (i * 3) % 7, email |-> "jan@example.org",
     is_author |-> a, extra |-> "{}"]

UserStores ==
    {{UserRow(i, i \in A) : i \in P} : <<P, A>> \in
        {pa \in (SUBSET UserIds) \X (SUBSET UserIds) : pa[2] \subseteq pa[1]}}

\* A row of models.Report.
DbReportRow(i, a, d) == [id |-> i, author_id |-> a, is_draft |-> d]

DbReportStores ==
    {S \in SUBSET {DbReportRow(i, a, d) :
                     i \in 1..MaxDbReports, a \in UserIds, d \in BOOLEAN} :
        \A r1, r2 \in S : r1.id = r2.id => r1 = r2}

\* ------------------------------------------------------------ Paginator
encode_cursor(n) == [numeric |-> TRUE, n |-> n]

Paginator(kwargs) ==
    LET first == IF "first" \in DOMAIN kwargs THEN kwargs.first ELSE PER_PAGE
    IN IF "after" \in DOMAIN kwargs
          /\ (~kwargs.after.numeric \/ kwargs.after.n < 0)
       THEN [ok |-> FALSE, error |-> "InvalidCursor"]
       ELSE LET k == IF "after" \in DOMAIN kwargs THEN kwargs.after.n ELSE 0
            IN [ok |-> TRUE, slice_from |-> k, slice_to |-> k + first]

get_edge_cursor(paginator, num) == encode_cursor(paginator.slice_from + num)

get_page_info(paginator, total) ==
    LET some == paginator.slice_from < total
    IN [hasNextPage |-> paginator.slice_to < total,
        hasPreviousPage |-> paginator.slice_from > 0,
        startCursor |-> IF some THEN get_edge_cursor(paginator, 1) ELSE NULL,
        endCursor |-> IF some THEN encode_cursor(Min(paginator.slice_to, total))
                      ELSE NULL]

\* ------------------------------------------------------- request inputs
Firsts == {1, 2}

Afters == {encode_cursor(1), encode_cursor(MaxDocs),
           [numeric |-> FALSE, n |-> 0], encode_cursor(-1)}

PageKwargs == WithKey(WithKey({[x \in {} |-> 0]}, "first", Firsts), "after", Afters)

AuthorsKwargs == {Put(kw, "reversed", r) : kw \in PageKwargs, r \in BOOLEAN}

SearchKwargs == {Put(kw, "highlight", FALSE) : kw \in AuthorsKwargs}

\* ---------------------------------------------------------- search index
TextFields == {"title", "body", "received_benefit", "provided_benefit",
               "our_participants", "other_participants"}

\* A document of the index: its id, its stored fields, and frags, the
\* fragments the engine produces per text field when asked to highlight.
NoFrags == [f \in {} |-> <<>>]

Doc(i, a) ==
    [id |-> i,
     source |-> [author_id |-> a, date |-> "2018-01-01", published |-> "2018-01-02",
                 extra |-> "{}", title |-> "kava", body |-> "kava"],
     frags |-> NoFrags]

\* The index content, in the order of the default sort.
Indexes ==
    UNION {{[j \in 1..n |-> Doc(j, f[j])] : f \in [1..n -> UserIds]} : n \in 0..MaxDocs}

\* A document with any subset of the text fields stored and any subset of
\* them highlighted (two fragments each).
ShapedDoc(stored, marked) ==
    [id |-> 1,
     source |-> [k \in {"author_id", "date", "published", "extra"} \cup stored |->
                   CASE k = "author_id" -> 1
                     [] k = "date" -> "2018-01-01"
                     [] k = "published" -> "2018-01-02"
                     [] k = "extra" -> "{}"
                     [] OTHER -> "kava"],
     frags |-> [k \in marked |-> <<"<mark>kava</mark>", "pije <mark>kava</mark>">>]]

ShapedIndexes ==
    {<<ShapedDoc(st, mk)>> : st \in SUBSET TextFields, mk \in SUBSET TextFields}

\* The hit the engine returns for a document.
Hit(doc, highlight) ==
    Put(doc.source, "meta",
        IF highlight /\ DOMAIN doc.frags # {}
        THEN [id |-> doc.id, highlight |-> doc.frags]
        ELSE [id |-> doc.id])

Hits(docs, highlight) == [i \in 1..Len(docs) |-> Hit(docs[i], highlight)]

\* search.query_reports(query, paginator, **params): index is the list of
\* documents matching the query, in the order of the requested sort.
query_reports(index, paginator, params) ==
    LET ordered == IF params.reversed THEN Reverse(index) ELSE index
    IN [hits |-> Hits(Slice(ordered, paginator.slice_from, paginator.slice_to),
                      params.highlight),
        total |-> Len(index)]

\* search.reports_by_author(author_id, paginator)
reports_by_author(index, author_id, paginator) ==
    LET mine == SelectSeq(index, LAMBDA d : d.source.author_id = author_id)
    IN [hits |-> Hits(Slice(mine, paginator.slice_from, paginator.slice_to), FALSE),
        total |-> Len(mine)]

\* ------------------------------------------------------------ responses
NoOut == [op |-> "none"]

NoReq == [op |-> "none"]

\* A call that raised: built holds the edges made before the exception,
\* which are dropped with the frame.
Failure(op, kwargs, error, calls, backend, built) ==
    [op |-> op, kwargs |-> kwargs, status |-> "error", error |-> error,
     calls |-> calls, backend |-> backend, built |-> built]

NoBackend == [rows |-> <<>>, seen |-> 0]

Success(op, kwargs, result, calls, backend) ==
    [op |-> op, kwargs |-> kwargs, status |-> "ok", result |-> result,
     calls |-> calls, backend |-> backend]

\* -------------------------------------------------------------- types.py
\* Variant: the stored value wins over the fragment.
get_higlighted_raw_first(hit, field) ==
    IF field \in DOMAIN hit THEN hit[field]
    ELSE IF "highlight" \in DOMAIN hit.meta /\ field \in DOMAIN hit.meta.highlight
    THEN hit.meta.highlight[field][1]
    ELSE ""

get_higlighted(hit, field) ==
    IF "highlight" \in DOMAIN hit.meta /\ field \in DOMAIN hit.meta.highlight
    THEN hit.meta.highlight[field][1]
    ELSE IF field \in DOMAIN hit THEN hit[field] ELSE ""

Report_from_es(report, author) ==
    [id |-> report.meta.id,
     author |-> author,
     date |-> report.date,
     published |-> report.published,
     title |-> get_higlighted(report, "title"),
     body |-> get_higlighted(report, "body"),
     received_benefit |-> get_higlighted(report, "received_benefit"),
     provided_benefit |-> get_higlighted(report, "provided_benefit"),
     our_participants |-> get_higlighted(report, "our_participants"),
     other_participants |-> get_higlighted(report, "other_participants"),
     extra |-> report.extra]

User_from_db(user) ==
    [id |-> user.id, openid_uid |-> user.openid_uid,
     first_name |-> user.first_name, last_name |-> user.last_name,
     email |-> user.email, is_author |-> user.is_author, extra |-> user.extra]

\* info.context.user: AnonymousUser, or the row of the logged-in user.
AnonymousUser == [is_authenticated |-> FALSE]

Authenticated(row) == Put(row, "is_authenticated", TRUE)

\* graphene hands the id over as a string; int(id) parses it.
int(s) == CHOOSE n \in 0..(MaxUser + 9) : ToString(n) = s

\* Variant: looks the id up in the store instead of comparing it with the
\* requester's.
User_get_node_lookup(viewer, id) ==
    IF ~viewer.is_authenticated THEN NULL
    ELSE IF \E u \in users : u.id = int(id)
    THEN User_from_db(CHOOSE u \in users : u.id = int(id))
    ELSE NULL

User_get_node(viewer, id) ==
    IF ~viewer.is_authenticated THEN NULL
    ELSE IF int(id) # viewer.id THEN NULL
    ELSE User_from_db(viewer)

Author_from_db(user) ==
    [id |-> user.id, first_name |-> user.first_name,
     last_name |-> user.last_name, extra |-> user.extra]

\* Variant: the lookup without the is_author filter.
Author_get_node_any(id) ==
    IF \E u \in users : u.id = id
    THEN Author_from_db(CHOOSE u \in users : u.id = id)
    ELSE NULL

Author_get_node(id) ==
    IF \E u \in users : u.id = id /\ u.is_author
    THEN Author_from_db(CHOOSE u \in users : u.id = id /\ u.is_author)
    ELSE NULL

\* Report.get_node(info, id): ReportDoc.get(id) against the index content.
Report_get_node(id, index) ==
    IF ~\E j \in 1..Len(index) : index[j].id = id
    THEN [result |-> NULL, calls |-> <<[call |-> "ReportDoc.get", id |-> id]>>]
    ELSE LET report == Hit(index[CHOOSE j \in 1..Len(index) : index[j].id = id], FALSE)
             author == Author_get_node(report.author_id)
         IN [result |-> Report_from_es(report, author),
             calls |-> <<[call |-> "ReportDoc.get", id |-> id],
                         [call |-> "User.get", id |-> report.author_id]>>]

\* The loop of Author.resolve_reports: one edge per hit, in the hits' order.
reports_edges(paginator, response, self) ==
    [i \in 1..Len(response) |->
       [node |-> Report_from_es(response[i], self),
        cursor |-> get_edge_cursor(paginator, i)]]

\* Author.resolve_reports(self, info, **kwargs)
Author_resolve_reports(self, kwargs, index) ==
    LET paginator == Paginator(kwargs)
    IN IF ~paginator.ok
       THEN Failure("Author.reports", kwargs, paginator.error, <<>>, NoBackend, <<>>)
       ELSE LET response == reports_by_author(index, self.id, paginator)
                total == response.total
                page_info == get_page_info(paginator, total)
                edges == reports_edges(paginator, response.hits, self)
            IN Success("Author.reports", kwargs,
                       [page_info |-> page_info, edges |-> edges, total_count |-> total],
                       <<[call |-> "search"]>>,
                       [rows |-> response.hits, seen |-> total])

\* ------------------------------------------------------------- schema.py
\* The map id -> Author of the users with id in ids, each row annotated with
\* total_reports, the number of its reports that are not drafts.
\* Variant: an entry for every id asked for, null where the store has no row.
_get_authors_cache_defaulting(ids) ==
    [i \in Range(ids) |->
       IF \E u \in users : u.id = i
       THEN Author_from_db(CHOOSE u \in users : u.id = i)
       ELSE NULL]

_get_authors_cache(ids) ==
    LET authors == {Put(u, "total_reports",
                        Cardinality({r \in dbReports :
                                       r.author_id = u.id /\ ~r.is_draft})) :
                      u \in {u \in users : u.id \in Range(ids)}}
    IN [i \in {a.id : a \in authors} |->
          Author_from_db(CHOOSE a \in authors : a.id = i)]

\* [r.author_id for r in response]
author_ids(response) == [i \in 1..Len(response) |-> response[i].author_id]

\* Variant: the lookup issued for an empty page too.
authors_lookups_unguarded(response) ==
    <<[call |-> "authors", ids |-> author_ids(response)]>>

\* The batch lookups of a call: one, if len(response) > 0.
authors_lookups(response) ==
    IF Len(response) > 0
    THEN <<[call |-> "authors", ids |-> author_ids(response)]>>
    ELSE <<>>

resolve_search_reports(kwargs, index) ==
    LET paginator == Paginator(kwargs)
    IN IF ~paginator.ok
       THEN Failure("search_reports", kwargs, paginator.error, <<>>, NoBackend, <<>>)
       ELSE
       LET params == [highlight |-> IF "highlight" \in DOMAIN kwargs
                                    THEN kwargs.highlight ELSE FALSE,
                      reversed |-> IF "reversed" \in DOMAIN kwargs
                                   THEN kwargs.reversed ELSE FALSE]
           response == query_reports(index, paginator, params).hits
           total == query_reports(index, paginator, params).total
           page_info == get_page_info(paginator, total)
           ids == author_ids(response)
           authors == _get_authors_cache(ids)
           calls == <<[call |-> "search"]>> \o authors_lookups(response)
           \* the first hit whose author the map lacks raises KeyError
           missing == {i \in 1..Len(response) : response[i].author_id \notin DOMAIN authors}
           n == IF missing = {} THEN Len(response)
                ELSE (CHOOSE i \in missing : \A j \in missing : i <= j) - 1
           edges == [i \in 1..n |->
                       [node |-> Report_from_es(response[i], authors[response[i].author_id]),
                        cursor |-> get_edge_cursor(paginator, i)]]
       IN IF missing # {}
          THEN Failure("search_reports", kwargs, "KeyError", calls,
                       [rows |-> response, seen |-> total], edges)
          ELSE Success("search_reports", kwargs,
                       [page_info |-> page_info, edges |-> edges, total_count |-> total],
                       calls, [rows |-> response, seen |-> total])

\* User.objects.sorted(**kwargs).filter(is_author=True), as a list.
sorted_authors(kwargs) ==
    LET asc == OrderByLastName({u \in users : u.is_author})
    IN IF kwargs.reversed THEN Reverse(asc) ELSE asc

\* Variant: the count without the is_author filter.
resolve_authors_count_all_users(kwargs) ==
    LET paginator == Paginator(kwargs)
    IN IF ~paginator.ok
       THEN [done |-> TRUE,
             out |-> Failure("authors", kwargs, paginator.error, <<>>, NoBackend, <<>>)]
       ELSE [done |-> FALSE,
             req |-> [op |-> "authors", kwargs |-> kwargs, paginator |-> paginator,
                      total |-> Cardinality(users),
                      calls |-> <<[call |-> "count"]>>]]

\* Variant: the count query issued before the Paginator is made.
resolve_authors_count_first(kwargs) ==
    LET total == Cardinality({u \in users : u.is_author})
        paginator == Paginator(kwargs)
    IN IF ~paginator.ok
       THEN [done |-> TRUE,
             out |-> Failure("authors", kwargs, paginator.error,
                             <<[call |-> "count"]>>, NoBackend, <<>>)]
       ELSE [done |-> FALSE,
             req |-> [op |-> "authors", kwargs |-> kwargs, paginator |-> paginator,
                      total |-> total,
                      calls |-> <<[call |-> "count"]>>]]

\* resolve_authors up to and including the count query.
resolve_authors_count(kwargs) ==
    LET paginator == Paginator(kwargs)
    IN IF ~paginator.ok
       THEN [done |-> TRUE,
             out |-> Failure("authors", kwargs, paginator.error, <<>>, NoBackend, <<>>)]
       ELSE [done |-> FALSE,
             req |-> [op |-> "authors", kwargs |-> kwargs, paginator |-> paginator,
                      total |-> Cardinality({u \in users : u.is_author}),
                      calls |-> <<[call |-> "count"]>>]]

\* The loop of resolve_authors: one edge per row, in the rows' order.
\* Variant: the cursor from enumerate's 0-based index.
authors_edges_zero_based(paginator, authors) ==
    [i \in 1..Len(authors) |->
       [node |-> Author_from_db(authors[i]),
        cursor |-> get_edge_cursor(paginator, i - 1)]]

authors_edges(paginator, authors) ==
    [i \in 1..Len(authors) |->
       [node |-> Author_from_db(authors[i]),
        cursor |-> get_edge_cursor(paginator, i)]]

\* resolve_authors from the slice query to the return.
resolve_authors_page(r) ==
    LET paginator == r.paginator
        all == sorted_authors(r.kwargs)
        authors == Slice(all, paginator.slice_from, paginator.slice_to)
        page_info == get_page_info(paginator, r.total)
        edges == authors_edges(paginator, authors)
    IN Success("authors", r.kwargs,
               [page_info |-> page_info, edges |-> edges, total_count |-> r.total],
               Append(r.calls, [call |-> "slice"]),
               [rows |-> authors, seen |-> Len(all)])

\* -------------------------------------------------------------- actions
AuthorsCount(kwargs) ==
    /\ out = NoOut /\ req = NoReq
    /\ LET s == resolve_authors_count(kwargs)
       IN IF s.done THEN out' = s.out /\ req' = req
          ELSE req' = s.req /\ out' = out
    /\ UNCHANGED <<users, dbReports>>

AuthorsPage ==
    /\ req # NoReq
    /\ out' = resolve_authors_page(req)
    /\ req' = NoReq
    /\ UNCHANGED <<users, dbReports>>

UserNode(viewer, id) ==
    /\ out = NoOut /\ req = NoReq
    /\ out' = [op |-> "User.get_node", viewer |-> viewer, id |-> id,
               result |-> User_get_node(viewer, id)]
    /\ UNCHANGED <<users, dbReports, req>>

SearchReports(kwargs, index) ==
    /\ out = NoOut /\ req = NoReq
    /\ out' = resolve_search_reports(kwargs, index)
    /\ UNCHANGED <<users, dbReports, req>>

AuthorReports(self, kwargs, index) ==
    /\ out = NoOut /\ req = NoReq
    /\ out' = Put(Author_resolve_reports(self, kwargs, index), "self", self)
    /\ UNCHANGED <<users, dbReports, req>>

ReportNode(id, index) ==
    /\ out = NoOut /\ req = NoReq
    /\ out' = [op |-> "Report.get_node", id |-> id, index |-> index,
               result |-> Report_get_node(id, index).result,
               calls |-> Report_get_node(id, index).calls]
    /\ UNCHANGED <<users, dbReports, req>>

\* Another request adds an author to the store, or removes one.
InsertAuthor(i) ==
    /\ ~\E u \in users : u.id = i
    /\ users' = users \cup {UserRow(i, TRUE)}
    /\ UNCHANGED <<dbReports, req, out>>

RemoveAuthor(i) ==
    /\ \E u \in users : u.id = i /\ u.is_author
    /\ users' = {u \in users : u.id # i}
    /\ UNCHANGED <<dbReports, req, out>>

Respond ==
    /\ out # NoOut
    /\ out' = NoOut
    /\ UNCHANGED <<users, dbReports, req>>

Viewers == {AnonymousUser} \cup {Authenticated(u) : u \in users}

NodeIds == {ToString(n) : n \in 1..(MaxUser + 1)}

Init ==
    /\ users \in UserStores
    /\ dbReports = {}
    /\ req = NoReq
    /\ out = NoOut

Selves == {Author_from_db(u) : u \in users}

\* Requests served one after the other over a store that does not change.
Next ==
    \/ \E kwargs \in AuthorsKwargs : AuthorsCount(kwargs)
    \/ AuthorsPage
    \/ \E kwargs \in SearchKwargs, index \in Indexes : SearchReports(kwargs, index)
    \/ \E self \in Selves, kwargs \in PageKwargs, index \in Indexes :
          AuthorReports(self, kwargs, index)
    \/ \E id \in 1..MaxDocs, index \in Indexes : ReportNode(id, index)
    \/ \E viewer \in Viewers, id \in NodeIds : UserNode(viewer, id)
    \/ Respond

Spec == Init /\ [][Next]_vars

\* resolve_authors while other requests write to the store.
NextConc ==
    \/ \E kwargs \in AuthorsKwargs : AuthorsCount(kwargs)
    \/ AuthorsPage
    \/ \E i \in UserIds : InsertAuthor(i)
    \/ \E i \in UserIds : RemoveAuthor(i)
    \/ Respond

SpecConc == Init /\ [][NextConc]_vars

\* searchReports over one document of every shape, with and without highlight.
InitHL ==
    /\ users = {UserRow(1, TRUE)}
    /\ dbReports = {}
    /\ req = NoReq
    /\ out = NoOut

NextHL ==
    \/ \E h \in BOOLEAN, index \in ShapedIndexes :
          SearchReports([reversed |-> FALSE, highlight |-> h], index)
    \/ Respond

SpecHL == InitHL /\ [][NextHL]_vars

\* searchReports over a store that holds reports.
InitTotals ==
    /\ users \in UserStores
    /\ dbReports \in DbReportStores
    /\ req = NoReq
    /\ out = NoOut

NextTotals ==
    \/ \E index \in Indexes :
          SearchReports([reversed |-> FALSE, highlight |-> FALSE], index)
    \/ Respond

SpecTotals == InitTotals /\ [][NextTotals]_vars

\* ------------------------------------------------------------ properties
ArgK(kwargs) == IF "after" \in DOMAIN kwargs THEN kwargs.after.n ELSE 0

ArgN(kwargs) == IF "first" \in DOMAIN kwargs THEN kwargs.first ELSE 10

Malformed(kwargs) ==
    "after" \in DOMAIN kwargs /\ (~kwargs.after.numeric \/ kwargs.after.n < 0)

ConnectionOps == {"authors", "search_reports", "Author.reports"}

Returned == out.op \in ConnectionOps /\ out.status = "ok"

RowId(row) == IF "meta" \in DOMAIN row THEN row.meta.id ELSE row.id

\* C1: User.get_node returns the requester's own User node when the requester
\* is authenticated and the id is the requester's; in every other case it
\* returns null, whether or not a user with that id is in the store.
C1_ViewerOnly ==
    out.op = "User.get_node" =>
        IF out.viewer.is_authenticated /\ ToString(out.viewer.id) = out.id
        THEN /\ out.result # NULL
             /\ out.result.id = out.viewer.id
             /\ out.result.email = out.viewer.email
             /\ DOMAIN out.result = {"id", "openid_uid", "first_name", "last_name",
                                     "email", "is_author", "extra"}
        ELSE out.result = NULL

\* An authenticated requester asks for the id of another user who exists.
C1_Witness ==
    /\ out.op = "User.get_node"
    /\ out.viewer.is_authenticated
    /\ ToString(out.viewer.id) # out.id
    /\ \E u \in users : ToString(u.id) = out.id
    /\ out.result = NULL

\* C2: resolve_search_reports issues one batch author lookup when the page has
\* a hit and none when it is empty, over exactly the author ids of the page,
\* and the author of every edge has the id of that edge's hit.
C2_OneBatchLookup ==
    (out.op = "search_reports" /\ out.calls # <<>>) =>
        LET rows == out.backend.rows
            batch == SelectSeq(out.calls, LAMBDA c : c.call = "authors")
        IN /\ Len(batch) = (IF Len(rows) > 0 THEN 1 ELSE 0)
           /\ \A b \in 1..Len(batch) :
                 Range(batch[b].ids) = {rows[j].author_id : j \in 1..Len(rows)}
           /\ out.status = "ok" =>
                 /\ Len(out.result.edges) = Len(rows)
                 /\ \A i \in 1..Len(rows) :
                       out.result.edges[i].node.author.id = rows[i].author_id

\* Three hits by authors 1, 2, 1: one lookup over {1, 2}, three edges.
C2_Witness ==
    /\ out.op = "search_reports" /\ out.status = "ok"
    /\ Len(out.backend.rows) = 3
    /\ [i \in 1..3 |-> out.backend.rows[i].author_id] = <<1, 2, 1>>
    /\ Len(SelectSeq(out.calls, LAMBDA c : c.call = "authors")) = 1
    /\ [i \in 1..3 |-> out.result.edges[i].node.author.id] = <<1, 2, 1>>

\* C3: when a hit of the page names an author the store does not hold,
\* resolve_search_reports fails and returns no connection; no edge, returned
\* or made before the failure, has a null or a mismatched author.
C3_MissingAuthorFails ==
    (out.op = "search_reports" /\ out.calls # <<>>) =>
        LET rows == out.backend.rows
            edges == IF out.status = "ok" THEN out.result.edges ELSE out.built
        IN /\ (\E j \in 1..Len(rows) : ~\E u \in users : u.id = rows[j].author_id)
                 => (out.status = "error" /\ "result" \notin DOMAIN out)
           /\ \A i \in 1..Len(edges) :
                 /\ edges[i].node.author # NULL
                 /\ edges[i].node.author.id = rows[i].author_id

\* The second hit names an absent author: the call fails after one edge.
C3_Witness ==
    /\ out.op = "search_reports" /\ out.status = "error" /\ out.error = "KeyError"
    /\ Len(out.backend.rows) >= 2
    /\ \E u \in users : u.id = out.backend.rows[1].author_id
    /\ ~\E u \in users : u.id = out.backend.rows[2].author_id
    /\ Len(out.built) = 1

\* C4: the Author node of every searchReports edge carries totalReports, the
\* number of that author's reports that are not drafts.
C4_TotalReports ==
    (out.op = "search_reports" /\ out.status = "ok") =>
        \A i \in 1..Len(out.result.edges) :
            LET author == out.result.edges[i].node.author
            IN /\ "total_reports" \in DOMAIN author
               /\ author.total_reports =
                     Cardinality({r \in dbReports :
                                    r.author_id = author.id /\ ~r.is_draft})

\* C5: each text field of the node made from a hit is the first highlighted
\* fragment of that field if the hit has one, else the hit's value of that
\* field, else the empty string, whatever the other fields of the hit hold.
C5_HighlightMerge ==
    (out.op = "search_reports" /\ out.status = "ok") =>
        \A i \in 1..Len(out.result.edges) :
            LET hit == out.backend.rows[i]
                node == out.result.edges[i].node
            IN \A f \in TextFields :
                 node[f] =
                   IF "highlight" \in DOMAIN hit.meta /\ f \in DOMAIN hit.meta.highlight
                   THEN Head(hit.meta.highlight[f])
                   ELSE IF f \in DOMAIN hit THEN hit[f] ELSE ""

\* One hit with title stored and highlighted, body stored only, one field
\* highlighted only and one neither.
C5_Witness ==
    /\ out.op = "search_reports" /\ out.status = "ok"
    /\ Len(out.result.edges) = 1
    /\ LET hit == out.backend.rows[1]
           node == out.result.edges[1].node
       IN /\ "highlight" \in DOMAIN hit.meta
          /\ DOMAIN hit.meta.highlight = {"title", "received_benefit"}
          /\ DOMAIN hit \cap TextFields = {"title", "body"}
          /\ node.title = "<mark>kava</mark>"
          /\ node.body = "kava"
          /\ node.received_benefit = "<mark>kava</mark>"
          /\ node.our_participants = ""

\* C6: a returned connection has one edge per backend result, in the
\* backend's order, the i-th with the cursor sliceFrom + i, so that the
\* cursors of a page increase strictly.
C6_EdgesInOrder ==
    Returned =>
        LET rows == out.backend.rows
            edges == out.result.edges
        IN /\ Len(edges) = Len(rows)
           /\ \A i \in 1..Len(edges) :
                 /\ edges[i].node.id = RowId(rows[i])
                 /\ edges[i].cursor = [numeric |-> TRUE, n |-> ArgK(out.kwargs) + i]
           /\ \A i \in 1..(Len(edges) - 1) : edges[i].cursor.n < edges[i + 1].cursor.n

\* authors with reversed = true returns two edges.
C6_Witness ==
    /\ Returned /\ out.op = "authors"
    /\ out.kwargs.reversed
    /\ Len(out.result.edges) = 2
    /\ out.backend.rows[1].last_name > out.backend.rows[2].last_name

\* C7: authors and searchReports with first = n after offset k over T
\* matches return min(n, max(0, T - k)) edges, totalCount = T,
\* hasNextPage = (k + n < T) and hasPreviousPage = (k > 0).
C7_PageShape ==
    (Returned /\ out.op \in {"authors", "search_reports"}) =>
        LET k == ArgK(out.kwargs)
            n == ArgN(out.kwargs)
            T == out.backend.seen
        IN /\ out.result.total_count = T
           /\ Len(out.result.edges) = Min(n, Max(0, T - k))
           /\ out.result.page_info.hasNextPage = (k + n < T)
           /\ out.result.page_info.hasPreviousPage = (k > 0)

\* searchReports with first = 2 over three matches.
C7_Witness ==
    /\ Returned /\ out.op = "search_reports"
    /\ "first" \in DOMAIN out.kwargs /\ out.kwargs.first = 2
    /\ "after" \notin DOMAIN out.kwargs
    /\ out.result.total_count = 3
    /\ Len(out.result.edges) = 2
    /\ out.result.page_info.hasNextPage
    /\ ~out.result.page_info.hasPreviousPage

\* C8: a call with a malformed cursor is rejected as InvalidCursor with no
\* backend call issued and no connection returned, and no resolve_authors
\* call with such a cursor gets as far as its count query.
C8_InvalidCursorFirst ==
    /\ (out.op \in ConnectionOps /\ Malformed(out.kwargs)) =>
          /\ out.status = "error" /\ out.error = "InvalidCursor"
          /\ out.calls = <<>>
          /\ "result" \notin DOMAIN out
    /\ req # NoReq => ~Malformed(req.kwargs)

\* authors is called with a negative cursor.
C8_Witness ==
    /\ out.op = "authors"
    /\ "after" \in DOMAIN out.kwargs
    /\ out.kwargs.after.numeric /\ out.kwargs.after.n < 0
    /\ out.status = "error"

\* C9: Report.get_node returns null for an id the index does not hold, with
\* no author lookup; for an id it holds it returns the Report with the author
\* found by one single lookup of the report's author_id, null when that user
\* is absent or is no author.
C9_ReportNode ==
    out.op = "Report.get_node" =>
        LET found == {j \in 1..Len(out.index) : out.index[j].id = out.id}
            lookups == SelectSeq(out.calls, LAMBDA c : c.call # "ReportDoc.get")
        IN IF found = {}
           THEN out.result = NULL /\ lookups = <<>>
           ELSE LET doc == out.index[CHOOSE j \in found : TRUE]
                    a == doc.source.author_id
                IN /\ out.result # NULL
                   /\ out.result.id = out.id
                   /\ lookups = <<[call |-> "User.get", id |-> a]>>
                   /\ IF \E u \in users : u.id = a /\ u.is_author
                      THEN out.result.author # NULL /\ out.result.author.id = a
                      ELSE out.result.author = NULL

\* The report is found and its author is in the store but is no author.
C9_Witness ==
    /\ out.op = "Report.get_node"
    /\ out.result # NULL
    /\ \E u \in users : u.id = out.index[out.id].source.author_id /\ ~u.is_author
    /\ out.result.author = NULL

\* C10: a connection of resolve_authors never has more edges than totalCount,
\* and when hasNextPage is false its edges reach the end of the authors the
\* slice query saw.
C10_ConsistentUnderWrites ==
    (out.op = "authors" /\ out.status = "ok") =>
        /\ Len(out.result.edges) <= out.result.total_count
        /\ ~out.result.page_info.hasNextPage =>
              ArgK(out.kwargs) + Len(out.result.edges) >= out.backend.seen

====
